---- MODULE Spec2Model ----
(***************************************************************************)
(* A model of util/util.go of longhorn-engine: the ScsiDevice lifecycle    *)
(* (NewScsiDevice, Startup, Shutdown) over the iSCSI collaborator, and the *)
(* bounded-time device removal (RemoveDevice, remove, removeAsync).        *)
(*                                                                         *)
(* The iSCSI helper library, the namespace executor and the operating      *)
(* system are the environment.  Every call into them returns either nil or *)
(* an error, chosen nondeterministically; a call that returns nil has its  *)
(* documented effect on the environment, a call that returns an error has  *)
(* none.                                                                   *)
(***************************************************************************)
EXTENDS Integers, Sequences, FiniteSets, TLC

\* ------------------------------------------------------------------------
\* Bounds of the model
\* ------------------------------------------------------------------------
\* distinct error values a collaborator call can return
NumErrors == 2
\* distinct block-device nodes GetDevice can report
NumDevNodes == 2

\* ------------------------------------------------------------------------
\* Values
\* ------------------------------------------------------------------------
\* Go's nil error
Nil == [kind |-> "nil", msg |-> ""]
\* ret while a call is still running
Running == [kind |-> "running", msg |-> ""]
\* an error produced by a collaborator (iscsi.*, iutil.*)
CollabError(k) == [kind |-> "collab", msg |-> "collaborator error " \o ToString(k)]
CollabErrors == {CollabError(k) : k \in 1..NumErrors}
\* what a fallible collaborator call can return as its error
CallOutcomes == {Nil} \cup CollabErrors
\* fmt.Errorf("SCSI Device is already down")
AlreadyDownError == [kind |-> "fmt", msg |-> "SCSI Device is already down"]

\* the device paths GetDevice can find
DevNodes == {"/dev/sd" \o ToString(k) : k \in 1..NumDevNodes}
\* the string GetDevice can hand back next to an error: nothing constrains it
GetDeviceValues == {""} \cup DevNodes
\* what GetDevice returns, as <<value, err>>: a path with nil, any string with an error
GetDeviceOutcomes ==
    {<<v, Nil>> : v \in DevNodes} \cup {<<v, e>> : v \in GetDeviceValues, e \in CollabErrors}

\* inputs of NewScsiDevice
Names == {"vol1", "vol2"}
BackingFiles == {"/var/lib/longhorn/vol.img"}
BSTypes == {"longhorn"}
BSOptsSet == {""}
LocalIPs == {"10.0.0.1", "10.0.0.2"}

\* the literals of NewScsiDevice
FixedTargetID == 1
FixedLunID == 1
TargetPrefix == "iqn.2014-07.com.rancher:"

\* ------------------------------------------------------------------------
\* NewScsiDevice(name, backingFile, bsType, bsOpts), with the result of
\* iutil.GetLocalIPs() as (ips, err).  Result: [dev, err, panic]; dev is
\* NoDevice when no device is returned.
\* ------------------------------------------------------------------------
NoDevice == [Target |-> "", TargetID |-> 0, LunID |-> 0, Device |-> "",
             Portal |-> "", BackingFile |-> "", BSType |-> "", BSOpts |-> ""]

\* a constructor that gives every name its own target id
NewScsiDevice_IdPerName(name, backingFile, bsType, bsOpts, ips, err) ==
    LET d == [Target |-> TargetPrefix \o name,
              TargetID |-> IF name = "vol1" THEN FixedTargetID ELSE FixedTargetID + 1,
              LunID |-> FixedLunID,
              Device |-> "",
              Portal |-> "",
              BackingFile |-> backingFile,
              BSType |-> bsType,
              BSOpts |-> bsOpts]
    IN  IF err # Nil
          THEN [dev |-> NoDevice, err |-> err, panic |-> FALSE]
          ELSE IF Len(ips) = 0
                 THEN [dev |-> NoDevice, err |-> Nil, panic |-> TRUE]
                 ELSE [dev |-> [d EXCEPT !.Portal = ips[1]], err |-> Nil, panic |-> FALSE]

NewScsiDevice(name, backingFile, bsType, bsOpts, ips, err) ==
    LET d == [Target |-> TargetPrefix \o name,
              TargetID |-> FixedTargetID,
              LunID |-> FixedLunID,
              Device |-> "",
              Portal |-> "",
              BackingFile |-> backingFile,
              BSType |-> bsType,
              BSOpts |-> bsOpts]
    IN  IF err # Nil
          THEN [dev |-> NoDevice, err |-> err, panic |-> FALSE]
          ELSE IF Len(ips) = 0
                 \* ips[0] on an empty slice: index out of range
                 THEN [dev |-> NoDevice, err |-> Nil, panic |-> TRUE]
                 ELSE [dev |-> [d EXCEPT !.Portal = ips[1]], err |-> Nil, panic |-> FALSE]

\* the devices a successful construction can return
ConstructedDevices ==
    {NewScsiDevice(n, bf, bt, bo, <<ip>>, Nil).dev :
        n \in Names, bf \in BackingFiles, bt \in BSTypes, bo \in BSOptsSet, ip \in LocalIPs}

\* ------------------------------------------------------------------------
\* State
\* ------------------------------------------------------------------------
VARIABLES
    dev,      \* instance -> ScsiDevice struct
    iscsi,    \* the collaborator's state: targets, LUNs, ACLs, discovery records, sessions
    pc,       \* position of the lifecycle call in flight, "idle" between calls
    self,     \* the instance the call in flight (or the last call) is on
    op,       \* the operation in flight or last completed: "none", "Startup", "Shutdown"
    ret,      \* the error returned by the last completed call, Running during a call
    calls,    \* the collaborator calls made by the call in flight (or the last call), in order
    pre,      \* the instance's struct when the call in flight (or the last call) began
    hist,     \* instance -> "init" | "up" (a Startup succeeded last) | "down" (then a Shutdown succeeded)
    leak,     \* instance -> a Shutdown failed after its logout and no Startup has succeeded since
    files,    \* the paths that exist in the file system
    gor,      \* the removeAsync goroutines started so far, in order: position, path, os.Remove's result,
              \* and whether os.Remove ran only after the RemoveDevice call that started it had returned
    rpc,      \* position of the RemoveDevice call in flight: "idle" between calls, "select" in remove's select
    rpath,    \* the argument of the RemoveDevice call in flight (or the last call)
    rret,     \* the error returned by the last completed RemoveDevice call, Running during a call
    rstat,    \* for that call: whether the path existed when os.Stat ran, and what os.Stat returned
    rvia,     \* how that call returned: "none", "skipped" (no removal started), "done" (result received), "timer"
    ctor,     \* the last NewScsiDevice call: its arguments, what GetLocalIPs returned, its result
    dup       \* the last DuplicateDevice call: what unix.Stat returned, the mknod call made, its result

scsiVars == <<dev, iscsi, pc, self, op, ret, calls, pre, hist, leak>>
nodeVars == <<files, gor, rpc, rpath, rret, rstat, rvia>>
pureVars == <<ctor, dup>>
vars == <<scsiVars, nodeVars, pureVars>>

\* one entry of the call log: the operation, its arguments, the error and value it returned
Call(name, args, e, v) == [name |-> name, args |-> args, err |-> e, val |-> v]

IscsiInit == [daemon |-> FALSE, targets |-> {}, luns |-> {}, acls |-> {},
              discovered |-> {}, sessions |-> {}]

\* no NewScsiDevice call and no DuplicateDevice call recorded
NoCtorCall == [called |-> FALSE]
NoDupCall == [called |-> FALSE]

\* the device-node side at rest: no RemoveDevice call made yet
NodeInit(fs) ==
    /\ ctor = NoCtorCall
    /\ dup = NoDupCall
    /\ files = fs
    /\ gor = <<>>
    /\ rpc = "idle"
    /\ rpath = ""
    /\ rret = Nil
    /\ rstat = [existed |-> FALSE, err |-> Nil]
    /\ rvia = "none"

\* the state after construction of the given set of instances
InitWith(insts) ==
    /\ dev \in [insts -> ConstructedDevices]
    /\ iscsi = IscsiInit
    /\ pc = "idle"
    /\ self \in insts
    /\ op = "none"
    /\ ret = Nil
    /\ calls = <<>>
    /\ pre = dev[self]
    /\ hist = [i \in insts |-> "init"]
    /\ leak = [i \in insts |-> FALSE]

Init == InitWith({1}) /\ NodeInit({})

\* the positions of Shutdown after the logout
CleanupSteps == {"Shutdown.DeleteDiscoveredTarget", "Shutdown.UnbindInitiator",
                 "Shutdown.DeleteLun", "Shutdown.DeleteTarget"}

\* a step of the call in flight fails: the call returns e, nothing else changes
Fail(e) ==
    /\ pc' = "idle"
    /\ ret' = e
    /\ leak' = IF pc \in CleanupSteps THEN [leak EXCEPT ![self] = TRUE] ELSE leak
    /\ UNCHANGED <<dev, iscsi, self, op, pre, hist, nodeVars, pureVars>>

\* a step of the call in flight succeeds: the call goes on at `next`
Proceed(next) ==
    /\ pc' = next
    /\ UNCHANGED <<ret, self, op, pre, hist, leak, nodeVars, pureVars>>

\* ------------------------------------------------------------------------
\* (dev *ScsiDevice) Startup(), one action per collaborator call
\* ------------------------------------------------------------------------
\* entry, and iutil.NewNamespaceExecutor("/host/proc/1/ns/")
Startup(i) ==
    /\ pc = "idle"
    /\ self' = i
    /\ op' = "Startup"
    /\ pre' = dev[i]
    /\ \E e \in CallOutcomes :
         /\ calls' = <<Call("NewNamespaceExecutor", <<"/host/proc/1/ns/">>, e, "")>>
         /\ IF e # Nil
              THEN pc' = "idle" /\ ret' = e
              ELSE pc' = "Startup.CheckForInitiatorExistence" /\ ret' = Running
    /\ UNCHANGED <<dev, iscsi, hist, leak, nodeVars, pureVars>>

\* iscsi.CheckForInitiatorExistence(ne)
StartupCheckForInitiatorExistence ==
    /\ pc = "Startup.CheckForInitiatorExistence"
    /\ \E e \in CallOutcomes :
         /\ calls' = Append(calls, Call("CheckForInitiatorExistence", <<"ne">>, e, ""))
         /\ IF e # Nil
              THEN Fail(e)
              ELSE Proceed("Startup.StartDaemon") /\ UNCHANGED <<dev, iscsi>>

\* StartDaemon with its error dropped: Startup goes on whatever it returned
StartupStartDaemon_IgnoresError ==
    /\ pc = "Startup.StartDaemon"
    /\ \E e \in CallOutcomes :
         /\ calls' = Append(calls, Call("StartDaemon", <<FALSE>>, e, ""))
         /\ Proceed("Startup.CreateTarget")
         /\ iscsi' = IF e = Nil THEN [iscsi EXCEPT !.daemon = TRUE] ELSE iscsi
         /\ UNCHANGED dev

\* iscsi.StartDaemon(false)
StartupStartDaemon ==
    /\ pc = "Startup.StartDaemon"
    /\ \E e \in CallOutcomes :
         /\ calls' = Append(calls, Call("StartDaemon", <<FALSE>>, e, ""))
         /\ IF e # Nil
              THEN Fail(e)
              ELSE /\ Proceed("Startup.CreateTarget")
                   /\ iscsi' = [iscsi EXCEPT !.daemon = TRUE]
                   /\ UNCHANGED dev

\* iscsi.CreateTarget(dev.TargetID, dev.Target)
StartupCreateTarget ==
    /\ pc = "Startup.CreateTarget"
    /\ \E e \in CallOutcomes :
         /\ calls' = Append(calls, Call("CreateTarget", <<dev[self].TargetID, dev[self].Target>>, e, ""))
         /\ IF e # Nil
              THEN Fail(e)
              ELSE /\ Proceed("Startup.AddLun")
                   /\ iscsi' = [iscsi EXCEPT !.targets = @ \cup {<<dev[self].TargetID, dev[self].Target>>}]
                   /\ UNCHANGED dev

\* iscsi.AddLun(dev.TargetID, dev.LunID, dev.BackingFile, dev.BSType, dev.BSOpts)
StartupAddLun ==
    /\ pc = "Startup.AddLun"
    /\ \E e \in CallOutcomes :
         /\ calls' = Append(calls, Call("AddLun", <<dev[self].TargetID, dev[self].LunID,
                                  dev[self].BackingFile, dev[self].BSType, dev[self].BSOpts>>, e, ""))
         /\ IF e # Nil
              THEN Fail(e)
              ELSE /\ Proceed("Startup.BindInitiator")
                   /\ iscsi' = [iscsi EXCEPT !.luns = @ \cup {<<dev[self].TargetID, dev[self].LunID>>}]
                   /\ UNCHANGED dev

\* iscsi.BindInitiator(dev.TargetID, "ALL")
StartupBindInitiator ==
    /\ pc = "Startup.BindInitiator"
    /\ \E e \in CallOutcomes :
         /\ calls' = Append(calls, Call("BindInitiator", <<dev[self].TargetID, "ALL">>, e, ""))
         /\ IF e # Nil
              THEN Fail(e)
              ELSE /\ Proceed("Startup.DiscoverTarget")
                   /\ iscsi' = [iscsi EXCEPT !.acls = @ \cup {<<dev[self].TargetID, "ALL">>}]
                   /\ UNCHANGED dev

\* iscsi.DiscoverTarget(dev.Portal, dev.Target, ne)
StartupDiscoverTarget ==
    /\ pc = "Startup.DiscoverTarget"
    /\ \E e \in CallOutcomes :
         /\ calls' = Append(calls, Call("DiscoverTarget", <<dev[self].Portal, dev[self].Target, "ne">>, e, ""))
         /\ IF e # Nil
              THEN Fail(e)
              ELSE /\ Proceed("Startup.LoginTarget")
                   /\ iscsi' = [iscsi EXCEPT !.discovered = @ \cup {<<dev[self].Portal, dev[self].Target>>}]
                   /\ UNCHANGED dev

\* LoginTarget whose failure undoes the discovery before returning
StartupLoginTarget_RollsBack ==
    /\ pc = "Startup.LoginTarget"
    /\ \E e \in CallOutcomes :
         /\ calls' = Append(calls, Call("LoginTarget", <<dev[self].Portal, dev[self].Target, "ne">>, e, ""))
         /\ IF e # Nil
              THEN /\ pc' = "idle"
                   /\ ret' = e
                   /\ iscsi' = [iscsi EXCEPT !.discovered = @ \ {<<dev[self].Portal, dev[self].Target>>}]
                   /\ UNCHANGED <<dev, self, op, pre, hist, leak, nodeVars, pureVars>>
              ELSE /\ Proceed("Startup.GetDevice")
                   /\ iscsi' = [iscsi EXCEPT !.sessions = @ \cup {<<dev[self].Portal, dev[self].Target>>}]
                   /\ UNCHANGED dev

\* LoginTarget with its error dropped: the device path is resolved without a session
StartupLoginTarget_IgnoresError ==
    /\ pc = "Startup.LoginTarget"
    /\ \E e \in CallOutcomes :
         /\ calls' = Append(calls, Call("LoginTarget", <<dev[self].Portal, dev[self].Target, "ne">>, e, ""))
         /\ Proceed("Startup.GetDevice")
         /\ iscsi' = IF e = Nil
                       THEN [iscsi EXCEPT !.sessions = @ \cup {<<dev[self].Portal, dev[self].Target>>}]
                       ELSE iscsi
         /\ UNCHANGED dev

\* iscsi.LoginTarget(dev.Portal, dev.Target, ne)
StartupLoginTarget ==
    /\ pc = "Startup.LoginTarget"
    /\ \E e \in CallOutcomes :
         /\ calls' = Append(calls, Call("LoginTarget", <<dev[self].Portal, dev[self].Target, "ne">>, e, ""))
         /\ IF e # Nil
              THEN Fail(e)
              ELSE /\ Proceed("Startup.GetDevice")
                   /\ iscsi' = [iscsi EXCEPT !.sessions = @ \cup {<<dev[self].Portal, dev[self].Target>>}]
                   /\ UNCHANGED dev

\* dev.Device, err = iscsi.GetDevice(dev.Portal, dev.Target, dev.LunID, ne): the value
\* returned is stored in Device before err is looked at; then return err or nil
StartupGetDevice ==
    /\ pc = "Startup.GetDevice"
    /\ \E o \in GetDeviceOutcomes :
       LET v == o[1]
           e == o[2]
       IN
         /\ calls' = Append(calls, Call("GetDevice", <<dev[self].Portal, dev[self].Target,
                                                       dev[self].LunID, "ne">>, e, v))
         /\ dev' = [dev EXCEPT ![self].Device = v]
         /\ pc' = "idle"
         /\ ret' = e
         /\ hist' = IF e = Nil THEN [hist EXCEPT ![self] = "up"] ELSE hist
         /\ leak' = IF e = Nil THEN [leak EXCEPT ![self] = FALSE] ELSE leak
    /\ UNCHANGED <<iscsi, self, op, pre, nodeVars, pureVars>>

StartupStep ==
    \/ StartupCheckForInitiatorExistence
    \/ StartupStartDaemon
    \/ StartupCreateTarget
    \/ StartupAddLun
    \/ StartupBindInitiator
    \/ StartupDiscoverTarget
    \/ StartupLoginTarget
    \/ StartupGetDevice

\* ------------------------------------------------------------------------
\* (dev *ScsiDevice) Shutdown(), one action per collaborator call
\* ------------------------------------------------------------------------
\* Shutdown without the already-down guard
Shutdown_NoGuard(i) ==
    /\ pc = "idle"
    /\ self' = i
    /\ op' = "Shutdown"
    /\ pre' = dev[i]
    /\ \E e \in CallOutcomes :
         /\ calls' = <<Call("NewNamespaceExecutor", <<"/host/proc/1/ns/">>, e, "")>>
         /\ IF e # Nil
              THEN pc' = "idle" /\ ret' = e
              ELSE pc' = "Shutdown.CheckForInitiatorExistence" /\ ret' = Running
    /\ UNCHANGED <<dev, iscsi, hist, leak, nodeVars, pureVars>>

\* entry: the already-down guard, then iutil.NewNamespaceExecutor("/host/proc/1/ns/")
Shutdown(i) ==
    /\ pc = "idle"
    /\ self' = i
    /\ op' = "Shutdown"
    /\ pre' = dev[i]
    /\ IF dev[i].Device = ""
         THEN /\ calls' = <<>>
              /\ pc' = "idle"
              /\ ret' = AlreadyDownError
         ELSE \E e \in CallOutcomes :
                /\ calls' = <<Call("NewNamespaceExecutor", <<"/host/proc/1/ns/">>, e, "")>>
                /\ IF e # Nil
                     THEN pc' = "idle" /\ ret' = e
                     ELSE pc' = "Shutdown.CheckForInitiatorExistence" /\ ret' = Running
    /\ UNCHANGED <<dev, iscsi, hist, leak, nodeVars, pureVars>>

\* iscsi.CheckForInitiatorExistence(ne)
ShutdownCheckForInitiatorExistence ==
    /\ pc = "Shutdown.CheckForInitiatorExistence"
    /\ \E e \in CallOutcomes :
         /\ calls' = Append(calls, Call("CheckForInitiatorExistence", <<"ne">>, e, ""))
         /\ IF e # Nil
              THEN Fail(e)
              ELSE Proceed("Shutdown.LogoutTarget") /\ UNCHANGED <<dev, iscsi>>

\* LogoutTarget without the assignment dev.Device = "" that follows it
ShutdownLogoutTarget_KeepsDevice ==
    /\ pc = "Shutdown.LogoutTarget"
    /\ \E e \in CallOutcomes :
         /\ calls' = Append(calls, Call("LogoutTarget", <<dev[self].Portal, dev[self].Target, "ne">>, e, ""))
         /\ IF e # Nil
              THEN Fail(e)
              ELSE /\ Proceed("Shutdown.DeleteDiscoveredTarget")
                   /\ iscsi' = [iscsi EXCEPT !.sessions = @ \ {<<dev[self].Portal, dev[self].Target>>}]
                   /\ UNCHANGED dev

\* LogoutTarget with dev.Device = "" done before the call's error is looked at
ShutdownLogoutTarget_ClearsFirst ==
    /\ pc = "Shutdown.LogoutTarget"
    /\ \E e \in CallOutcomes :
         /\ calls' = Append(calls, Call("LogoutTarget", <<dev[self].Portal, dev[self].Target, "ne">>, e, ""))
         /\ dev' = [dev EXCEPT ![self].Device = ""]
         /\ IF e # Nil
              THEN /\ pc' = "idle"
                   /\ ret' = e
                   /\ UNCHANGED <<iscsi, self, op, pre, hist, leak, nodeVars, pureVars>>
              ELSE /\ Proceed("Shutdown.DeleteDiscoveredTarget")
                   /\ iscsi' = [iscsi EXCEPT !.sessions = @ \ {<<dev[self].Portal, dev[self].Target>>}]

\* iscsi.LogoutTarget(dev.Portal, dev.Target, ne), and on success dev.Device = ""
ShutdownLogoutTarget ==
    /\ pc = "Shutdown.LogoutTarget"
    /\ \E e \in CallOutcomes :
         /\ calls' = Append(calls, Call("LogoutTarget", <<dev[self].Portal, dev[self].Target, "ne">>, e, ""))
         /\ IF e # Nil
              THEN Fail(e)
              ELSE /\ Proceed("Shutdown.DeleteDiscoveredTarget")
                   /\ iscsi' = [iscsi EXCEPT !.sessions = @ \ {<<dev[self].Portal, dev[self].Target>>}]
                   /\ dev' = [dev EXCEPT ![self].Device = ""]

\* iscsi.DeleteDiscoveredTarget(dev.Portal, dev.Target, ne)
ShutdownDeleteDiscoveredTarget ==
    /\ pc = "Shutdown.DeleteDiscoveredTarget"
    /\ \E e \in CallOutcomes :
         /\ calls' = Append(calls, Call("DeleteDiscoveredTarget", <<dev[self].Portal, dev[self].Target, "ne">>, e, ""))
         /\ IF e # Nil
              THEN Fail(e)
              ELSE /\ Proceed("Shutdown.UnbindInitiator")
                   /\ iscsi' = [iscsi EXCEPT !.discovered = @ \ {<<dev[self].Portal, dev[self].Target>>}]
                   /\ UNCHANGED dev

\* UnbindInitiator followed by DeleteTarget, the DeleteLun step left out
ShutdownUnbindInitiator_SkipsDeleteLun ==
    /\ pc = "Shutdown.UnbindInitiator"
    /\ \E e \in CallOutcomes :
         /\ calls' = Append(calls, Call("UnbindInitiator", <<dev[self].TargetID, "ALL">>, e, ""))
         /\ IF e # Nil
              THEN Fail(e)
              ELSE /\ Proceed("Shutdown.DeleteTarget")
                   /\ iscsi' = [iscsi EXCEPT !.acls = @ \ {<<dev[self].TargetID, "ALL">>}]
                   /\ UNCHANGED dev

\* iscsi.UnbindInitiator(dev.TargetID, "ALL")
ShutdownUnbindInitiator ==
    /\ pc = "Shutdown.UnbindInitiator"
    /\ \E e \in CallOutcomes :
         /\ calls' = Append(calls, Call("UnbindInitiator", <<dev[self].TargetID, "ALL">>, e, ""))
         /\ IF e # Nil
              THEN Fail(e)
              ELSE /\ Proceed("Shutdown.DeleteLun")
                   /\ iscsi' = [iscsi EXCEPT !.acls = @ \ {<<dev[self].TargetID, "ALL">>}]
                   /\ UNCHANGED dev

\* iscsi.DeleteLun(dev.TargetID, dev.LunID)
ShutdownDeleteLun ==
    /\ pc = "Shutdown.DeleteLun"
    /\ \E e \in CallOutcomes :
         /\ calls' = Append(calls, Call("DeleteLun", <<dev[self].TargetID, dev[self].LunID>>, e, ""))
         /\ IF e # Nil
              THEN Fail(e)
              ELSE /\ Proceed("Shutdown.DeleteTarget")
                   /\ iscsi' = [iscsi EXCEPT !.luns = @ \ {<<dev[self].TargetID, dev[self].LunID>>}]
                   /\ UNCHANGED dev

\* DeleteTarget that also zeroes the struct's TargetID once the target is gone
ShutdownDeleteTarget_ResetsTargetID ==
    /\ pc = "Shutdown.DeleteTarget"
    /\ \E e \in CallOutcomes :
         /\ calls' = Append(calls, Call("DeleteTarget", <<dev[self].TargetID>>, e, ""))
         /\ IF e # Nil
              THEN Fail(e)
              ELSE /\ pc' = "idle"
                   /\ ret' = Nil
                   /\ iscsi' = [iscsi EXCEPT !.targets = {t \in @ : t[1] # dev[self].TargetID}]
                   /\ hist' = [hist EXCEPT ![self] = IF @ = "up" THEN "down" ELSE @]
                   /\ dev' = [dev EXCEPT ![self].TargetID = 0]
                   /\ UNCHANGED <<self, op, pre, leak, nodeVars, pureVars>>

\* iscsi.DeleteTarget(dev.TargetID), then return nil
ShutdownDeleteTarget ==
    /\ pc = "Shutdown.DeleteTarget"
    /\ \E e \in CallOutcomes :
         /\ calls' = Append(calls, Call("DeleteTarget", <<dev[self].TargetID>>, e, ""))
         /\ IF e # Nil
              THEN Fail(e)
              ELSE /\ pc' = "idle"
                   /\ ret' = Nil
                   /\ iscsi' = [iscsi EXCEPT !.targets = {t \in @ : t[1] # dev[self].TargetID}]
                   /\ hist' = [hist EXCEPT ![self] = IF @ = "up" THEN "down" ELSE @]
                   /\ UNCHANGED <<dev, self, op, pre, leak, nodeVars, pureVars>>

ShutdownStep ==
    \/ ShutdownCheckForInitiatorExistence
    \/ ShutdownLogoutTarget
    \/ ShutdownDeleteDiscoveredTarget
    \/ ShutdownUnbindInitiator
    \/ ShutdownDeleteLun
    \/ ShutdownDeleteTarget

\* ------------------------------------------------------------------------
\* The lifecycle of the instances: calls are serialized by the caller, any
\* collaborator call may fail
\* ------------------------------------------------------------------------
Next ==
    \/ \E i \in DOMAIN dev : Startup(i)
    \/ StartupStep
    \/ \E i \in DOMAIN dev : Shutdown(i)
    \/ ShutdownStep

Spec == Init /\ [][Next]_vars

\* two instances in one execution context, their calls serialized by the caller
\* (both constructors resolve the same first local address; the names may be equal or not)
InitTwo ==
    /\ InitWith({1, 2})
    /\ NodeInit({})
    /\ dev[1].Portal = "10.0.0.1"
    /\ dev[2].Portal = dev[1].Portal
    /\ dev[1].Target = TargetPrefix \o "vol1"
    /\ self = 1
SpecTwo == InitTwo /\ [][Next]_vars

\* ------------------------------------------------------------------------
\* RemoveDevice(dev), remove(path) and the goroutine removeAsync(path, done)
\* ------------------------------------------------------------------------
\* removeAsync goroutines one run of the model starts
MaxSpawns == 2

Paths == {"/dev/longhorn/vol1", "/dev/longhorn/vol2"}

\* errors of the operating system
ENOENT == [kind |-> "errno", msg |-> "no such file or directory"]
EACCES == [kind |-> "errno", msg |-> "permission denied"]
\* os.IsNotExist(err)
IsNotExist(err) == err = ENOENT

\* what os.Stat(p) can return as its error
StatOutcomes(p) == IF p \in files THEN {Nil, EACCES} ELSE {ENOENT, EACCES}
\* what os.Remove(p) can return
RemoveOutcomes(p) == IF p \in files THEN {Nil, EACCES} ELSE {ENOENT, EACCES}

\* fmt.Errorf("Failed to removing device %s, %v", dev, err)
FailedToRemove(p, err) == [kind |-> "fmt", msg |-> "Failed to removing device " \o p \o ", " \o err.msg]
\* fmt.Errorf("Timeout trying to delete %s.", path)
TimeoutError(p) == [kind |-> "fmt", msg |-> "Timeout trying to delete " \o p \o "."]

\* what RemoveDevice returns for the error remove(dev) returned
RemoveDeviceResult(p, err) == IF err # Nil THEN FailedToRemove(p, err) ELSE Nil

\* the goroutine of the RemoveDevice call in flight: the last one started
Current == Len(gor)

\* RemoveDevice(p) up to remove's select: os.Stat(p); if it returns an error, return nil;
\* otherwise make the channel and start removeAsync
RemoveDevice(p) ==
    /\ rpc = "idle"
    /\ rpath' = p
    /\ \E e \in StatOutcomes(p) :
         /\ rstat' = [existed |-> p \in files, err |-> e]
         /\ IF e = Nil
              THEN /\ Len(gor) < MaxSpawns
                   /\ gor' = Append(gor, [pc |-> "Remove", path |-> p, res |-> Nil, late |-> FALSE])
                   /\ rpc' = "select"
                   /\ rret' = Running
                   /\ rvia' = "none"
              ELSE /\ rpc' = "idle"
                   /\ rret' = Nil
                   /\ rvia' = "skipped"
                   /\ UNCHANGED gor
    /\ UNCHANGED <<files, scsiVars, pureVars>>

\* removeAsync without the os.IsNotExist test: every error of os.Remove is sent
RemoveAsyncRemove_NoNotExistTest(g) ==
    /\ gor[g].pc = "Remove"
    /\ \E e \in RemoveOutcomes(gor[g].path) :
         /\ files' = IF e = Nil THEN files \ {gor[g].path} ELSE files
         /\ gor' = [gor EXCEPT ![g].res = e,
                               ![g].late = ~(rpc = "select" /\ g = Current),
                               ![g].pc = IF e # Nil THEN "SendErr" ELSE "SendNil"]
    /\ UNCHANGED <<rpc, rpath, rret, rstat, rvia, scsiVars, pureVars>>

\* removeAsync, first half: os.Remove(path), then on to one of the two sends
RemoveAsyncRemove(g) ==
    /\ gor[g].pc = "Remove"
    /\ \E e \in RemoveOutcomes(gor[g].path) :
         /\ files' = IF e = Nil THEN files \ {gor[g].path} ELSE files
         /\ gor' = [gor EXCEPT ![g].res = e,
                               ![g].late = ~(rpc = "select" /\ g = Current),
                               ![g].pc = IF e # Nil /\ ~IsNotExist(e) THEN "SendErr" ELSE "SendNil"]
    /\ UNCHANGED <<rpc, rpath, rret, rstat, rvia, scsiVars, pureVars>>

\* the select of remove receives from done: the goroutine's pending send completes
\* (done <- err is followed by done <- nil; done <- nil by the goroutine's end), remove
\* returns the value and RemoveDevice returns it, wrapped when it is an error
RemoveReceive ==
    /\ rpc = "select"
    /\ gor[Current].pc \in {"SendErr", "SendNil"}
    /\ LET err == IF gor[Current].pc = "SendErr" THEN gor[Current].res ELSE Nil
       IN  rret' = RemoveDeviceResult(rpath, err)
    /\ gor' = [gor EXCEPT ![Current].pc = IF @ = "SendErr" THEN "SendNil" ELSE "Exit"]
    /\ rpc' = "idle"
    /\ rvia' = "done"
    /\ UNCHANGED <<files, rpath, rstat, scsiVars, pureVars>>

\* a timeout that also ends the goroutine (a cancelled removal)
RemoveTimeout_Cancels ==
    /\ rpc = "select"
    /\ rret' = RemoveDeviceResult(rpath, TimeoutError(rpath))
    /\ gor' = [gor EXCEPT ![Current].pc = "Exit"]
    /\ rpc' = "idle"
    /\ rvia' = "timer"
    /\ UNCHANGED <<files, rpath, rstat, scsiVars, pureVars>>

\* a select without the time.After case: the timer never ends the wait
RemoveTimeout_Never ==
    /\ FALSE
    /\ UNCHANGED vars

\* the select of remove receives from time.After(30 * time.Second)
RemoveTimeout ==
    /\ rpc = "select"
    /\ rret' = RemoveDeviceResult(rpath, TimeoutError(rpath))
    /\ rpc' = "idle"
    /\ rvia' = "timer"
    /\ UNCHANGED <<files, gor, rpath, rstat, scsiVars, pureVars>>

NextRemove ==
    \/ \E p \in Paths : RemoveDevice(p)
    \/ \E g \in 1..Len(gor) : RemoveAsyncRemove(g)
    \/ RemoveReceive
    \/ RemoveTimeout

InitRemove ==
    /\ InitWith({1})
    /\ dev[1] = NewScsiDevice("vol1", "/var/lib/longhorn/vol.img", "longhorn", "", <<"10.0.0.1">>, Nil).dev
    /\ \E fs \in SUBSET Paths : NodeInit(fs)

SpecRemove == InitRemove /\ [][NextRemove]_vars

\* the same, with the one thing the runtime guarantees the caller: a timer that has been
\* started fires.  Nothing is assumed about the goroutine: os.Remove may never return.
SpecRemoveLive == SpecRemove /\ WF_vars(RemoveTimeout)

\* ------------------------------------------------------------------------
\* NewScsiDevice as an operation: any arguments, any result of GetLocalIPs
\* ------------------------------------------------------------------------
\* longest address list GetLocalIPs returns in the model
MaxIPs == 3

\* names a caller can pass, the empty one included
CtorNames == Names \cup {""}
\* the address lists GetLocalIPs can return, the empty one included
IPLists == UNION {[1..n -> LocalIPs] : n \in 0..MaxIPs}

NewScsiDeviceCall ==
    /\ \E n \in CtorNames, bf \in BackingFiles, bt \in BSTypes, bo \in BSOptsSet,
          ips \in IPLists, e \in CallOutcomes :
         ctor' = [called |-> TRUE, name |-> n, backingFile |-> bf, bsType |-> bt, bsOpts |-> bo,
                  ips |-> ips, err |-> e, out |-> NewScsiDevice(n, bf, bt, bo, ips, e)]
    /\ UNCHANGED <<scsiVars, nodeVars, dup>>

InitNew == InitRemove /\ files = {}
SpecNew == InitNew /\ [][NewScsiDeviceCall]_vars

\* ------------------------------------------------------------------------
\* DuplicateDevice(src, dest) and mknod(device, major, minor)
\* ------------------------------------------------------------------------
\* the device identifiers 0..MaxRdev are tried one by one, and a few large ones
MaxRdev == 4095
LargeRdevs == {65535, 65536, 66049, 1048575, 1048576, 1114113, 268435457, 2147483647}
Rdevs == (0..MaxRdev) \cup LargeRdevs

\* a & b, a | b and a << n on non-negative integers
RECURSIVE BitAnd(_, _)
BitAnd(a, b) ==
    IF a = 0 \/ b = 0 THEN 0 ELSE (a % 2) * (b % 2) + 2 * BitAnd(a \div 2, b \div 2)
RECURSIVE BitOr(_, _)
BitOr(a, b) ==
    IF a = 0 THEN b
    ELSE IF b = 0 THEN a
    ELSE (IF a % 2 = 1 \/ b % 2 = 1 THEN 1 ELSE 0) + 2 * BitOr(a \div 2, b \div 2)
Shl(a, n) == a * 2^n

\* unix.Mknod's error when dest exists already
EEXIST == [kind |-> "errno", msg |-> "file exists"]

\* major := int(stat.Rdev / 256), minor := int(stat.Rdev % 256)
Major(rdev) == rdev \div 256
Minor(rdev) == rdev % 256

\* a device number built with the major shifted by four bits only
MknodDev_NarrowShift(major, minor) ==
    BitOr(BitOr(Shl(major, 4), BitAnd(minor, 255)), Shl(BitAnd(minor, 1048320), 12))

\* dev := int((major << 8) | (minor & 0xff) | ((minor & 0xfff00) << 12))
MknodDev(major, minor) ==
    BitOr(BitOr(Shl(major, 8), BitAnd(minor, 255)), Shl(BitAnd(minor, 1048320), 12))

\* fileMode = 0600 | unix.S_IFBLK
MknodMode == BitOr(384, 24576)

\* what unix.Mknod(p, ...) can return: a path that exists is never created again, and
\* the call is refused, whether the path exists or not, when its directory is closed
MknodOutcomes(p) == IF p \in files THEN {EEXIST, EACCES} ELSE {Nil, EACCES}

\* DuplicateDevice(src, dest) called with the file system fs: unix.Stat(src) returns
\* statErr, or nil and Rdev = rdev; then mknod(dest, major, minor), whose unix.Mknod
\* returns mkErr.  The field before keeps fs, the file system the call found.
DuplicateDevice(fs, src, dest, rdev, statErr, mkErr) ==
    IF statErr # Nil
      THEN [called |-> TRUE, before |-> fs, src |-> src, dest |-> dest, rdev |-> rdev,
            statErr |-> statErr,
            mknodCalled |-> FALSE, mknodPath |-> "", mknodMode |-> 0, mknodDev |-> 0,
            ret |-> statErr]
      ELSE [called |-> TRUE, before |-> fs, src |-> src, dest |-> dest, rdev |-> rdev,
            statErr |-> Nil,
            mknodCalled |-> TRUE, mknodPath |-> dest, mknodMode |-> MknodMode,
            mknodDev |-> MknodDev(Major(rdev), Minor(rdev)),
            ret |-> mkErr]

\* one call is followed from its inputs to its result; a unix.Mknod that returns nil
\* has created the node dest.  The source is a device node of the SCSI layer, whose
\* existence is the environment's: unix.Stat(src) may succeed or fail.
DuplicateDeviceCall ==
    /\ ~dup.called
    /\ \E src \in DevNodes, dest \in Paths, statErr \in {Nil, ENOENT, EACCES} :
         \E mkErr \in (IF statErr = Nil THEN MknodOutcomes(dest) ELSE {Nil}),
            rdev \in (IF statErr = Nil THEN Rdevs ELSE {0}) :
            /\ dup' = DuplicateDevice(files, src, dest, rdev, statErr, mkErr)
            /\ files' = IF statErr = Nil /\ mkErr = Nil THEN files \cup {dest} ELSE files
    /\ UNCHANGED <<scsiVars, gor, rpc, rpath, rret, rstat, rvia, ctor>>

\* the destination directory holds any of the paths when the call is made
InitDup == InitRemove
SpecDup == InitDup /\ [][DuplicateDeviceCall]_vars

\* ------------------------------------------------------------------------
\* Vocabulary of the properties
\* ------------------------------------------------------------------------
IsPrefix(s, t) == Len(s) <= Len(t) /\ \A k \in 1..Len(s) : s[k] = t[k]
CallNames == [k \in 1..Len(calls) |-> calls[k].name]
\* every call of the log but the last returned nil
OnlyLastMayFail == \A k \in 1..(Len(calls) - 1) : calls[k].err = Nil
LastCall == calls[Len(calls)]
StartupReturned == op = "Startup" /\ pc = "idle"
ShutdownReturned == op = "Shutdown" /\ pc = "idle"
TeardownNames == {"LogoutTarget", "DeleteDiscoveredTarget", "UnbindInitiator", "DeleteLun", "DeleteTarget"}
CleanupNames == {"DeleteDiscoveredTarget", "UnbindInitiator", "DeleteLun", "DeleteTarget"}

\* the initiator of instance i is logged in to its target
LoggedIn(i) == <<dev[i].Portal, dev[i].Target>> \in iscsi.sessions
\* the target of instance i exists, with its LUN attached and its initiator ACL bound
Bound(i) ==
    /\ <<dev[i].TargetID, dev[i].Target>> \in iscsi.targets
    /\ <<dev[i].TargetID, dev[i].LunID>> \in iscsi.luns
    /\ <<dev[i].TargetID, "ALL">> \in iscsi.acls

\* what a successful call of the log left in the collaborator
EffectInPlace(c) ==
    CASE c.name = "StartDaemon" -> iscsi.daemon
      [] c.name = "CreateTarget" -> <<c.args[1], c.args[2]>> \in iscsi.targets
      [] c.name = "AddLun" -> <<c.args[1], c.args[2]>> \in iscsi.luns
      [] c.name = "BindInitiator" -> <<c.args[1], c.args[2]>> \in iscsi.acls
      [] c.name = "DiscoverTarget" -> <<c.args[1], c.args[2]>> \in iscsi.discovered
      [] c.name = "LoginTarget" -> <<c.args[1], c.args[2]>> \in iscsi.sessions
      [] OTHER -> TRUE

\* ------------------------------------------------------------------------
\* C1: Startup invokes the collaborator operations in the order: executor,
\* initiator check, start daemon (non-force), create target, add LUN, bind
\* initiator "ALL", discover, log in, resolve device path; a step is invoked
\* only if every earlier step of the call returned nil, and a call that has
\* not failed does not return before the ninth step.
\* ------------------------------------------------------------------------
ClaimedStartupOrder ==
    <<"NewNamespaceExecutor", "CheckForInitiatorExistence", "StartDaemon", "CreateTarget",
      "AddLun", "BindInitiator", "DiscoverTarget", "LoginTarget", "GetDevice">>

C1_StartupOrder ==
    op = "Startup" =>
        /\ Len(calls) >= 1
        /\ IsPrefix(CallNames, ClaimedStartupOrder)
        /\ OnlyLastMayFail
        /\ (pc = "idle" /\ LastCall.err = Nil => Len(calls) = Len(ClaimedStartupOrder))
        /\ (pc # "idle" => LastCall.err = Nil)
        /\ (Len(calls) >= 3 => calls[3].args = <<FALSE>>)
        /\ (Len(calls) >= 6 => calls[6].args[2] = "ALL")

\* a Startup that failed at its fifth step, add LUN, and made no further call
C1_Witness ==
    /\ StartupReturned
    /\ Len(calls) = 5
    /\ LastCall.name = "AddLun"
    /\ LastCall.err # Nil
    /\ ret # Nil

\* ------------------------------------------------------------------------
\* C2: if Device is "" before Startup and any step of Startup fails, Device
\* is "" when Startup returns.
\* ------------------------------------------------------------------------
C2_DeviceStaysEmpty ==
    (StartupReturned /\ ret # Nil /\ pre.Device = "") => dev[self].Device = ""

\* ------------------------------------------------------------------------
\* C3: a failing Startup returns exactly the error its failing step
\* produced, has invoked no teardown operation, and everything the earlier
\* steps of the call created is still in place.
\* ------------------------------------------------------------------------
C3_StartupFailureVerbatimNoRollback ==
    (StartupReturned /\ ret # Nil) =>
        /\ ret = LastCall.err
        /\ ret \in CollabErrors
        /\ \A k \in 1..Len(calls) : calls[k].name \notin TeardownNames
        /\ \A k \in 1..(Len(calls) - 1) : EffectInPlace(calls[k])

\* a Startup that failed at login, after target, LUN, ACL and discovery were set up
C3_Witness ==
    /\ StartupReturned
    /\ ret \in CollabErrors
    /\ LastCall.name = "LoginTarget"
    /\ Bound(self)
    /\ <<dev[self].Portal, dev[self].Target>> \in iscsi.discovered

\* ------------------------------------------------------------------------
\* C4: Shutdown on a device whose Device is "" returns the already-down
\* error at once, with no collaborator call and the struct unchanged.
\* ------------------------------------------------------------------------
C4_ShutdownWhenDown ==
    (op = "Shutdown" /\ pre.Device = "") =>
        /\ pc = "idle"
        /\ ret = AlreadyDownError
        /\ calls = <<>>
        /\ dev[self] = pre

\* Shutdown as the first call on a freshly constructed device
C4_Witness ==
    /\ ShutdownReturned
    /\ pre.Device = ""
    /\ hist[self] = "init"
    /\ iscsi = IscsiInit

\* ------------------------------------------------------------------------
\* C5: once a successful Startup was followed by a successful Shutdown,
\* every further Shutdown call fails with the already-down error, until a
\* Startup succeeds again.
\* ------------------------------------------------------------------------
C5_DownStaysDown ==
    [][(pc = "idle" /\ op' = "Shutdown" /\ hist[self'] = "down") =>
          (pc' = "idle" /\ ret' = AlreadyDownError /\ calls' = <<>>)]_vars

\* the part of C5 that holds: a Shutdown that returns nil leaves Device ""
C5_SuccessfulShutdownClears ==
    (ShutdownReturned /\ ret = Nil) => dev[self].Device = ""

\* ------------------------------------------------------------------------
\* C6: Shutdown on an attached device invokes, in order: executor, initiator
\* check, log out, (clear Device), delete discovered target, unbind initiator
\* "ALL", delete LUN, delete target; each only if every earlier one returned
\* nil; the first failing step's error is returned.
\* ------------------------------------------------------------------------
ClaimedShutdownOrder ==
    <<"NewNamespaceExecutor", "CheckForInitiatorExistence", "LogoutTarget",
      "DeleteDiscoveredTarget", "UnbindInitiator", "DeleteLun", "DeleteTarget">>

\* Device has been cleared exactly when the logout, the third call, has returned nil
ClearedRightAfterLogout ==
    IF Len(calls) >= 3 /\ calls[3].err = Nil
      THEN dev[self].Device = ""
      ELSE dev[self].Device = pre.Device

C6_ShutdownOrder ==
    (op = "Shutdown" /\ pre.Device # "") =>
        /\ Len(calls) >= 1
        /\ IsPrefix(CallNames, ClaimedShutdownOrder)
        /\ OnlyLastMayFail
        /\ ClearedRightAfterLogout
        /\ (pc = "idle" => ret = LastCall.err)
        /\ (pc = "idle" /\ LastCall.err = Nil => Len(calls) = Len(ClaimedShutdownOrder))
        /\ (pc # "idle" => LastCall.err = Nil)
        /\ (Len(calls) >= 5 => calls[5].args[2] = "ALL")

\* a Shutdown that failed at unbind, its fifth call
C6_Witness ==
    /\ ShutdownReturned
    /\ pre.Device # ""
    /\ Len(calls) = 5
    /\ LastCall.name = "UnbindInitiator"
    /\ ret = LastCall.err
    /\ ret # Nil

\* ------------------------------------------------------------------------
\* C7: when Shutdown returns an error produced by delete-discovered-target,
\* unbind, delete-LUN or delete-target, Device is already "" and that error
\* is what the caller gets.
\* ------------------------------------------------------------------------
C7_ClearedBeforeCleanup ==
    (ShutdownReturned /\ Len(calls) >= 1 /\ LastCall.name \in CleanupNames /\ LastCall.err # Nil) =>
        /\ dev[self].Device = ""
        /\ pre.Device # ""
        /\ ret = LastCall.err

\* a Shutdown that failed at delete-LUN
C7_Witness ==
    /\ ShutdownReturned
    /\ Len(calls) >= 1
    /\ LastCall.name = "DeleteLun"
    /\ LastCall.err # Nil

\* ------------------------------------------------------------------------
\* C8 as stated: between completed calls, Device # "" if and only if the
\* initiator is logged in and the target is bound.
\* ------------------------------------------------------------------------
C8_DeviceIffAttached ==
    pc = "idle" => \A i \in DOMAIN dev : (dev[i].Device # "") <=> (LoggedIn(i) /\ Bound(i))

\* C8 as amended: between completed calls, Device # "" only if the
\* initiator is logged in and the target is bound.
C8_DeviceOnlyIfAttached ==
    pc = "idle" => \A i \in DOMAIN dev : (dev[i].Device # "") => (LoggedIn(i) /\ Bound(i))

\* a Shutdown that failed before the logout: the device is still attached
C8_Witness ==
    /\ ShutdownReturned
    /\ ret \in CollabErrors
    /\ dev[self].Device # ""
    /\ LoggedIn(self)
    /\ Bound(self)

\* ------------------------------------------------------------------------
\* C9 as stated: RemoveDevice returns success without starting a background
\* removal exactly when the path does not exist; whenever the path exists,
\* whatever os.Stat returns, the removal is started.
\* ------------------------------------------------------------------------
C9_SkipsExactlyWhenAbsent ==
    (rpc = "idle" /\ rvia # "none") => ((rvia = "skipped") <=> ~rstat.existed)

\* what the code does instead: it skips the removal exactly when os.Stat returns an error
C9_SkipsExactlyWhenStatFails ==
    (rpc = "idle" /\ rvia # "none") =>
        /\ (rvia = "skipped") <=> (rstat.err # Nil)
        /\ (rvia = "skipped" => rret = Nil)

\* ------------------------------------------------------------------------
\* C10: when RemoveDevice receives the removal's result before the timeout,
\* it returns success if os.Remove removed the file or found it already
\* gone, and an error carrying os.Remove's error otherwise.
\* ------------------------------------------------------------------------
C10_ReturnsRemovalResult ==
    (rpc = "idle" /\ rvia = "done") =>
        LET res == gor[Current].res
        IN  /\ gor[Current].path = rpath
            /\ (res = Nil \/ IsNotExist(res)) => rret = Nil
            /\ ~(res = Nil \/ IsNotExist(res)) =>
                  /\ rret # Nil
                  /\ rret = FailedToRemove(rpath, res)

\* os.Remove failed with permission denied and RemoveDevice returned that failure
C10_Witness ==
    /\ rpc = "idle"
    /\ rvia = "done"
    /\ gor[Current].res = EACCES
    /\ rret = FailedToRemove(rpath, EACCES)

\* the file was already gone when os.Remove ran (an earlier, timed-out call's goroutine
\* removed it in between) and RemoveDevice returned success
C10_WitnessAlreadyGone ==
    /\ rpc = "idle"
    /\ rvia = "done"
    /\ rstat.existed
    /\ IsNotExist(gor[Current].res)
    /\ rret = Nil

\* ------------------------------------------------------------------------
\* C11: when the timer wins the select, RemoveDevice returns the timeout
\* error naming the path, and the goroutine is left as it was: it has not
\* ended, and if its os.Remove is still to run, it can still run and remove
\* the file after RemoveDevice has returned.
\* ------------------------------------------------------------------------
C11_TimeoutLeavesRemovalRunning ==
    (rpc = "idle" /\ rvia = "timer") =>
        /\ rret = FailedToRemove(rpath, TimeoutError(rpath))
        /\ gor[Current].path = rpath
        /\ gor[Current].pc \in {"Remove", "SendErr", "SendNil"}
        /\ (gor[Current].pc = "Remove" /\ rpath \in files) =>
              ENABLED (RemoveAsyncRemove(Current) /\ rpath \notin files')

\* RemoveDevice returned the timeout error, and afterwards the goroutine removed the file
C11_Witness ==
    /\ rpc = "idle"
    /\ rvia = "timer"
    /\ rret = FailedToRemove(rpath, TimeoutError(rpath))
    /\ rstat.existed
    /\ gor[Current].pc = "SendNil"
    /\ gor[Current].res = Nil
    /\ gor[Current].late
    /\ rpath \notin files

\* ------------------------------------------------------------------------
\* C12: a RemoveDevice call waiting in the select always eventually returns,
\* given only that the timer fires.
\* ------------------------------------------------------------------------
C12_RemoveDeviceReturns == (rpc = "select") ~> (rpc = "idle")

\* RemoveDevice has returned while os.Remove has not
C12_Witness ==
    /\ rpc = "idle"
    /\ rvia = "timer"
    /\ gor[Current].pc = "Remove"

\* ------------------------------------------------------------------------
\* C15: whenever RemoveDevice has received the removal's result from done
\* (nil or an error), the goroutine that sent it has ended: it is not left
\* blocked on a send.
\* ------------------------------------------------------------------------
C15_NoLeakAfterResult ==
    (rpc = "idle" /\ rvia = "done") => gor[Current].pc = "Exit"

\* what makes the leak permanent: a goroutine waiting to send on a channel whose only
\* receiver has returned never moves again
C15_BlockedStaysBlocked ==
    [][\A g \in 1..Len(gor) :
          (gor[g].pc \in {"SendErr", "SendNil"} /\ ~(rpc = "select" /\ g = Current))
              => gor'[g] = gor[g]]_vars

\* the part of C15 that holds: after a nil result the goroutine has ended
C15_NoLeakAfterSuccess ==
    (rpc = "idle" /\ rvia = "done" /\ rret = Nil) => gor[Current].pc = "Exit"

\* ------------------------------------------------------------------------
\* C16: no step of Startup or Shutdown, whatever its outcome, changes
\* Target, TargetID, LunID, BackingFile, BSType, BSOpts or Portal of any
\* instance: Device is the only field written.
\* ------------------------------------------------------------------------
SameButDevice(a, b) == [a EXCEPT !.Device = ""] = [b EXCEPT !.Device = ""]

C16_OnlyDeviceWritten ==
    [][\A i \in DOMAIN dev : SameButDevice(dev'[i], dev[i])]_vars

\* a call that wrote Device and then returned an error; the other fields are as they were
C16_Witness ==
    /\ pc = "idle"
    /\ ret \in CollabErrors
    /\ dev[self].Device # pre.Device
    /\ SameButDevice(dev[self], pre)

\* ------------------------------------------------------------------------
\* C17: a Shutdown on an attached device that fails at the executor, the
\* initiator check or the logout leaves Device at its non-empty value and
\* has invoked no cleanup operation, so the next Shutdown passes the guard
\* and starts the teardown again at its first step.
\* ------------------------------------------------------------------------
C17_EarlyFailureKeepsAttached ==
    (/\ ShutdownReturned
     /\ pre.Device # ""
     /\ LastCall.name \in {"NewNamespaceExecutor", "CheckForInitiatorExistence", "LogoutTarget"}
     /\ LastCall.err # Nil) =>
        /\ dev[self].Device = pre.Device
        /\ dev[self].Device # ""
        /\ \A k \in 1..Len(calls) : calls[k].name \notin CleanupNames
        /\ ENABLED (/\ Shutdown(self)
                    /\ Len(calls') = 1
                    /\ calls'[1].name = "NewNamespaceExecutor"
                    /\ calls'[1].err = Nil
                    /\ pc' = "Shutdown.CheckForInitiatorExistence")

\* a Shutdown that failed at the logout
C17_Witness ==
    /\ ShutdownReturned
    /\ pre.Device # ""
    /\ Len(calls) = 3
    /\ LastCall.name = "LogoutTarget"
    /\ LastCall.err # Nil
    /\ LoggedIn(self)

\* ------------------------------------------------------------------------
\* C18: once a Shutdown has failed at a step after the logout, every later
\* Shutdown call on that instance returns the already-down error without a
\* collaborator call, unless a Startup has succeeded in between.
\* ------------------------------------------------------------------------
C18_LeakedCleanupNeverRetried ==
    [][(pc = "idle" /\ op' = "Shutdown" /\ leak[self']) =>
          (pc' = "idle" /\ ret' = AlreadyDownError /\ calls' = <<>>)]_vars

\* the part of C18 that holds: right after such a failure Device is "", so a Shutdown
\* that follows it directly is stopped by the guard
C18_NextShutdownIsStopped ==
    (ShutdownReturned /\ Len(calls) >= 1 /\ LastCall.name \in CleanupNames /\ LastCall.err # Nil) =>
        /\ leak[self]
        /\ dev[self].Device = ""

\* ------------------------------------------------------------------------
\* C19: every instance uses target id 1 and LUN id 1 in its create-target,
\* add-LUN, bind, unbind, delete-LUN and delete-target calls; so with two
\* instances a Startup of one while the other is attached issues
\* create-target for an id already in use, and after a successful Shutdown
\* of either no target with id 1 is left, whichever instance created it.
\* ------------------------------------------------------------------------
TargetIdCalls == {"CreateTarget", "AddLun", "BindInitiator", "UnbindInitiator", "DeleteLun", "DeleteTarget"}
LunIdCalls == {"AddLun", "DeleteLun"}
TargetIdsInUse == {t[1] : t \in iscsi.targets}

C19_SharedTargetId ==
    /\ \A i \in DOMAIN dev : dev[i].TargetID = 1 /\ dev[i].LunID = 1
    /\ \A k \in 1..Len(calls) :
         /\ calls[k].name \in TargetIdCalls => calls[k].args[1] = 1
         /\ calls[k].name \in LunIdCalls => calls[k].args[2] = 1
    \* about to create the target while another instance is attached (its Device set and
    \* its target still bound): the id is in use
    /\ (pc = "Startup.CreateTarget" /\ \E i \in DOMAIN dev : i # self /\ dev[i].Device # "" /\ Bound(i))
          => dev[self].TargetID \in TargetIdsInUse
    \* a Shutdown that returned nil has deleted target id 1, the other instance's included
    /\ (ShutdownReturned /\ ret = Nil)
          => \A i \in DOMAIN dev : <<dev[i].TargetID, dev[i].Target>> \notin iscsi.targets

\* instance 1 started and is still attached; instance 2 started too and its Shutdown
\* returned nil: the target instance 1 created is gone
C19_Witness ==
    /\ ShutdownReturned
    /\ ret = Nil
    /\ self = 2
    /\ hist[1] = "up"
    /\ dev[1].Device # ""
    /\ dev[1].Target # dev[2].Target
    /\ ~Bound(1)

\* ------------------------------------------------------------------------
\* C13: NewScsiDevice returns, when the resolution yields at least one
\* address, a device with Target = prefix + name, TargetID = 1, LunID = 1,
\* Device = "" and Portal = the first address; and when it yields none (an
\* error, or an empty list) an error and no device, without crashing.
\* ------------------------------------------------------------------------
ConstructedAsClaimed ==
    /\ ctor.out.err = Nil
    /\ ~ctor.out.panic
    /\ ctor.out.dev = [Target |-> "iqn.2014-07.com.rancher:" \o ctor.name,
                       TargetID |-> 1, LunID |-> 1, Device |-> "",
                       Portal |-> ctor.ips[1],
                       BackingFile |-> ctor.backingFile, BSType |-> ctor.bsType,
                       BSOpts |-> ctor.bsOpts]
ConstructionRefused ==
    /\ ctor.out.err # Nil
    /\ ~ctor.out.panic
    /\ ctor.out.dev = NoDevice

C13_ConstructOrRefuse ==
    ctor.called =>
        IF ctor.err = Nil /\ Len(ctor.ips) >= 1 THEN ConstructedAsClaimed ELSE ConstructionRefused

\* the part of C13 that holds: every case but the empty list returned with a nil error
C13_ExceptEmptyList ==
    (ctor.called /\ ~(ctor.err = Nil /\ Len(ctor.ips) = 0)) =>
        IF ctor.err = Nil THEN ConstructedAsClaimed ELSE ConstructionRefused /\ ctor.out.err = ctor.err

\* ------------------------------------------------------------------------
\* C14: for every source device identifier r of the range, the device
\* number DuplicateDevice passes to the node creation equals r, so the
\* destination has the source's major/minor pair; when the stat of the
\* source fails no node is created and the stat error is returned.
\* ------------------------------------------------------------------------
C14_DuplicatePreservesIdentity ==
    dup.called =>
        IF dup.statErr # Nil
          THEN /\ ~dup.mknodCalled
               /\ files = dup.before
               /\ dup.ret = dup.statErr
          ELSE /\ dup.mknodCalled
               /\ dup.mknodPath = dup.dest
               /\ dup.mknodDev = dup.rdev
               /\ dup.mknodDev \div 256 = dup.rdev \div 256
               /\ dup.mknodDev % 256 = dup.rdev % 256
               /\ dup.mknodMode = 24960
               /\ files = IF dup.ret = Nil THEN dup.before \cup {dup.dest} ELSE dup.before
               /\ (dup.ret = Nil) => dup.dest \notin dup.before

\* the device 8:1 (identifier 2049) duplicated to a path that did not exist
C14_Witness ==
    /\ dup.called
    /\ dup.statErr = Nil
    /\ dup.rdev = 2049
    /\ dup.mknodCalled
    /\ dup.mknodDev = 8 * 256 + 1
    /\ dup.ret = Nil
    /\ dup.before = {}
    /\ files = {dup.dest}

====
